---- MODULE Spec2Model ----
(***************************************************************************)
(* A model of gql-inspect (GQLIntrospector): the schema model, the SDL     *)
(* renderer (build and its per-kind writers, format_type) and write.       *)
(* Text is modelled by TLA+ strings, so that concatenation, prefixes and   *)
(* lines are those of the bytes the program produces.                      *)
(***************************************************************************)
EXTENDS Naturals, Sequences, FiniteSets, TLC

VARIABLES
    alive,                 \* the introspector value has not been consumed
    headers,               \* GQLIntrospector.headers
    introspection_result,  \* GQLIntrospector.introspection_result (Option)
    schema,                \* GQLIntrospector.schema
    pc,                    \* "idle", or "build" inside the loop of build()
    sb,                    \* build(): the local string buffer
    idx,                   \* build(): index of the next type of the loop
    implements_iface_map,  \* build(): the local implements index
    files,                 \* the file system: path -> Option<content>
    server,                \* what the endpoint answers to the introspection query
    last,                  \* the last call and its result
    hist,                  \* per build() that returned Ok: the schema text then held
                           \* and the introspection result it was called with
    schema0,               \* schema text the introspector was constructed with
    ft_arg,                \* format_type: the argument (Option<Type>)
    ft_ret,                \* format_type: the returned string (Option<String>)
    wr_in,                 \* a writer called on its own: the Field or Type written
    wr_buf,                \* a writer called on its own: the buffer it is handed
    wr_out                 \* a writer called on its own: the buffer on return (Option)

vars == <<alive, headers, introspection_result, schema, pc, sb, idx,
          implements_iface_map, files, server, last, hist, schema0,
          ft_arg, ft_ret, wr_in, wr_buf, wr_out>>

(***************************************************************************)
(* Option<T>: None is the empty sequence, Some(x) the one-element sequence. *)
(***************************************************************************)
None == <<>>
Some(x) == <<x>>
IsSome(o) == Len(o) = 1
Unwrap(o) == o[1]

(***************************************************************************)
(* Strings.                                                                *)
(***************************************************************************)
starts_with(s, p) == Len(s) >= Len(p) /\ SubSeq(s, 1, Len(p)) = p

IsPrefix(p, s) == starts_with(s, p)

contains(s, sub) ==
    \E i \in 1..(Len(s) + 1) :
        i + Len(sub) - 1 <= Len(s) /\ SubSeq(s, i, i + Len(sub) - 1) = sub

RECURSIVE join(_, _)
join(v, sep) ==
    IF Len(v) = 0 THEN ""
    ELSE IF Len(v) = 1 THEN v[1]
    ELSE v[1] \o sep \o join(Tail(v), sep)

\* The lines of a text: the pieces between its newlines, a last unterminated
\* piece included when it is not empty.
Lines(s) ==
    LET nl == {i \in 1..Len(s) : SubSeq(s, i, i) = "\n"}
        starts == {st \in {1} \cup {i + 1 : i \in nl} : st <= Len(s)}
        stop(st) == IF \E i \in nl : i >= st
                    THEN CHOOSE i \in nl : i >= st /\ \A j \in nl : j >= st => i <= j
                    ELSE Len(s) + 1
    IN  {SubSeq(s, st, stop(st) - 1) : st \in starts}

(***************************************************************************)
(* The schema model: struct Type, struct Field, struct Value.  The fields  *)
(* the renderer never reads (description, defaultValue, isDeprecated,      *)
(* deprecationReason) are left out.                                        *)
(***************************************************************************)
Type(kind, name, fields, input_fields, interfaces, enum_values, possible_types, of_type) ==
    [kind |-> kind, name |-> name, fields |-> fields,
     input_fields |-> input_fields, interfaces |-> interfaces,
     enum_values |-> enum_values, possible_types |-> possible_types,
     of_type |-> of_type]

Field(name, field_type, args) ==
    [name |-> name, field_type |-> field_type, args |-> args]

Value(name) == [name |-> name]

\* A type reference: a Type with only kind, name and ofType set.
TypeRef(kind, name, of_type) ==
    Type(kind, name, None, None, None, None, None, of_type)

Named(kind, name) == TypeRef(Some(kind), Some(name), None)
ListOf(t) == TypeRef(Some("LIST"), None, Some(t))
NonNullOf(t) == TypeRef(Some("NON_NULL"), None, Some(t))

(***************************************************************************)
(* format_type                                                             *)
(***************************************************************************)
\* LIST and NON_NULL taken for each other.
RECURSIVE format_type_swapped(_)
format_type_swapped(t) ==
    IF IsSome(t.of_type)
    THEN IF IsSome(t.kind) /\ Unwrap(t.kind) = "NON_NULL"
         THEN "[" \o format_type_swapped(Unwrap(t.of_type)) \o "]"
         ELSE IF IsSome(t.kind) /\ Unwrap(t.kind) = "LIST"
              THEN format_type_swapped(Unwrap(t.of_type)) \o "!"
              ELSE format_type_swapped(Unwrap(t.of_type))
    ELSE IF IsSome(t.name)
         THEN Unwrap(t.name)
         ELSE ""

\* A reference whose innermost node has no name formatted as the empty string.
RECURSIVE format_type_degrading(_)
format_type_degrading(t) ==
    IF IsSome(t.of_type)
    THEN LET inner == format_type_degrading(Unwrap(t.of_type))
         IN  IF inner = "" THEN ""
             ELSE IF IsSome(t.kind) /\ Unwrap(t.kind) = "LIST"
                  THEN "[" \o inner \o "]"
                  ELSE IF IsSome(t.kind) /\ Unwrap(t.kind) = "NON_NULL"
                       THEN inner \o "!"
                       ELSE inner
    ELSE IF IsSome(t.name)
         THEN Unwrap(t.name)
         ELSE ""

RECURSIVE format_type(_)
format_type(t) ==
    IF IsSome(t.of_type)
    THEN IF IsSome(t.kind) /\ Unwrap(t.kind) = "LIST"
         THEN "[" \o format_type(Unwrap(t.of_type)) \o "]"
         ELSE IF IsSome(t.kind) /\ Unwrap(t.kind) = "NON_NULL"
              THEN format_type(Unwrap(t.of_type)) \o "!"
              ELSE format_type(Unwrap(t.of_type))
    ELSE IF IsSome(t.name)
         THEN Unwrap(t.name)
         ELSE ""

(***************************************************************************)
(* write_field and the per-kind writers: each takes the buffer (sb in the  *)
(* source, out here) and returns it with what the function pushes onto it. *)
(***************************************************************************)
\* Each argument rendered with its own declared type.
RECURSIVE write_args_declared(_, _, _, _)
write_args_declared(out, field, args, i) ==
    IF i > Len(args) THEN out
    ELSE LET sep == IF i > 1 THEN ", " ELSE ""
             arg == args[i]
             txt == IF IsSome(arg.name) /\ IsSome(arg.field_type)
                    THEN Unwrap(arg.name) \o ": " \o format_type(Unwrap(arg.field_type))
                    ELSE ""
         IN  write_args_declared(out \o sep \o txt, field, args, i + 1)

RECURSIVE write_args(_, _, _, _)
write_args(out, field, args, i) ==
    IF i > Len(args) THEN out
    ELSE LET sep == IF i > 1 THEN ", " ELSE ""
             arg == args[i]
             txt == IF IsSome(arg.name) /\ IsSome(field.field_type)
                    THEN Unwrap(arg.name) \o ": " \o format_type(Unwrap(field.field_type))
                    ELSE ""
         IN  write_args(out \o sep \o txt, field, args, i + 1)

write_field(out, field) ==
    IF IsSome(field.name)
    THEN LET s1 == out \o "  " \o Unwrap(field.name)
             s2 == IF IsSome(field.args) /\ Len(Unwrap(field.args)) > 0
                   THEN write_args(s1 \o "(", field, Unwrap(field.args), 1) \o ")"
                   ELSE s1
         IN  IF IsSome(field.field_type)
             THEN s2 \o ": " \o format_type(Unwrap(field.field_type)) \o "\n"
             ELSE s2
    ELSE out

RECURSIVE write_fields(_, _)
write_fields(out, fields) ==
    IF Len(fields) = 0 THEN out
    ELSE write_fields(write_field(out, Head(fields)), Tail(fields))

\* The interface names joined by commas.
implements_clause_commas(implements) == " implements " \o join(implements, ", ")

implements_clause(implements) == " implements " \o join(implements, " & ")

write_object_type(out, t, implements_interface_map) ==
    IF IsSome(t.name)
    THEN LET name == Unwrap(t.name)
             s1 == out \o "type " \o name
             s2 == IF name \in DOMAIN implements_interface_map
                   THEN s1 \o implements_clause(implements_interface_map[name])
                   ELSE s1
             s3 == s2 \o " {\n"
             s4 == IF IsSome(t.fields) THEN write_fields(s3, Unwrap(t.fields)) ELSE s3
         IN  s4 \o "}\n\n"
    ELSE out

RECURSIVE write_enum_values(_, _)
write_enum_values(out, values) ==
    IF Len(values) = 0 THEN out
    ELSE LET v == Head(values)
         IN  write_enum_values(
                 IF IsSome(v.name) THEN out \o "  " \o Unwrap(v.name) \o "\n" ELSE out,
                 Tail(values))

write_enum_type(out, t) ==
    IF IsSome(t.name)
    THEN LET s1 == out \o "enum " \o Unwrap(t.name) \o " {\n"
             s2 == IF IsSome(t.enum_values)
                   THEN write_enum_values(s1, Unwrap(t.enum_values))
                   ELSE s1
         IN  s2 \o "}\n\n"
    ELSE out

write_scalar_type(out, t) ==
    IF IsSome(t.name) THEN out \o "scalar " \o Unwrap(t.name) \o "\n\n" ELSE out

write_interface_type(out, t) ==
    IF IsSome(t.name)
    THEN LET s1 == out \o "interface " \o Unwrap(t.name) \o " {\n"
             s2 == IF IsSome(t.fields) THEN write_fields(s1, Unwrap(t.fields)) ELSE s1
         IN  s2 \o "}\n\n"
    ELSE out

RECURSIVE write_input_fields(_, _)
write_input_fields(out, input_fields) ==
    IF Len(input_fields) = 0 THEN out
    ELSE LET f == Head(input_fields)
         IN  write_input_fields(
                 IF IsSome(f.name) /\ IsSome(f.field_type)
                 THEN out \o "  " \o Unwrap(f.name) \o ": "
                         \o format_type(Unwrap(f.field_type)) \o "\n"
                 ELSE out,
                 Tail(input_fields))

write_input_object_type(out, t) ==
    IF IsSome(t.name)
    THEN LET s1 == out \o "input " \o Unwrap(t.name) \o " {\n"
             s2 == IF IsSome(t.input_fields)
                   THEN write_input_fields(s1, Unwrap(t.input_fields))
                   ELSE s1
         IN  s2 \o "}\n\n"
    ELSE out

RECURSIVE write_possible_types(_, _, _)
write_possible_types(out, possible_types, i) ==
    IF i > Len(possible_types) THEN out
    ELSE LET sep == IF i > 1 THEN " | " ELSE ""
             pt == possible_types[i]
             txt == IF IsSome(pt.name) THEN Unwrap(pt.name) ELSE ""
         IN  write_possible_types(out \o sep \o txt, possible_types, i + 1)

write_union_type(out, t) ==
    IF IsSome(t.name)
    THEN LET s1 == out \o "union " \o Unwrap(t.name) \o " = "
             s2 == IF IsSome(t.possible_types)
                   THEN write_possible_types(s1, Unwrap(t.possible_types), 1)
                   ELSE s1
         IN  s2 \o "\n\n"
    ELSE out

(***************************************************************************)
(* build_implements_interface_map.  The HashMap is a function from the     *)
(* names that are keys to the Vec of interface names.  An unwrap() of an   *)
(* absent name panics: panic is TRUE and the map is what was built so far.  *)
(***************************************************************************)
EmptyMap == [k \in {} |-> <<>>]

\* entry(key).or_default().push(value)
entry_push(m, key, value) ==
    IF key \in DOMAIN m
    THEN [m EXCEPT ![key] = Append(@, value)]
    ELSE [k \in DOMAIN m \cup {key} |-> IF k = key THEN <<value>> ELSE m[k]]

RECURSIVE push_interfaces(_, _, _)
push_interfaces(acc, t, interfaces) ==
    IF acc.panic \/ Len(interfaces) = 0 THEN acc
    ELSE IF ~IsSome(t.name) \/ ~IsSome(Head(interfaces).name)
         THEN [panic |-> TRUE, map |-> acc.map]
         ELSE push_interfaces(
                  [panic |-> FALSE,
                   map |-> entry_push(acc.map, Unwrap(t.name),
                                      Unwrap(Head(interfaces).name))],
                  t, Tail(interfaces))

RECURSIVE implements_from(_, _)
implements_from(acc, types) ==
    IF acc.panic \/ Len(types) = 0 THEN acc
    ELSE LET t == Head(types)
         IN  implements_from(
                 IF IsSome(t.interfaces)
                 THEN push_interfaces(acc, t, Unwrap(t.interfaces))
                 ELSE acc,
                 Tail(types))

build_implements_interface_map(introspection) ==
    implements_from([panic |-> FALSE, map |-> EmptyMap], introspection.schema.types)

(***************************************************************************)
(* build(): the body of the loop for one top-level type t.                 *)
(***************************************************************************)
\* Equality in place of the prefix test.
is_introspection_name_exact(name) == name = "__"

is_introspection_name(name) == starts_with(name, "__")

build_type(buf, t, map) ==
    IF IsSome(t.name)
    THEN IF is_introspection_name(Unwrap(t.name))
         THEN buf
         ELSE IF IsSome(t.kind)
              THEN CASE Unwrap(t.kind) = "OBJECT" -> write_object_type(buf, t, map)
                     [] Unwrap(t.kind) = "ENUM" -> write_enum_type(buf, t)
                     [] Unwrap(t.kind) = "SCALAR" -> write_scalar_type(buf, t)
                     [] Unwrap(t.kind) = "INTERFACE" -> write_interface_type(buf, t)
                     [] Unwrap(t.kind) = "INPUT_OBJECT" -> write_input_object_type(buf, t)
                     [] Unwrap(t.kind) = "UNION" -> write_union_type(buf, t)
                     [] OTHER -> buf
              ELSE buf
    ELSE buf

(***************************************************************************)
(* Bounds and the inputs drawn within them.                                *)
(***************************************************************************)
MaxTypes == 2      \* top-level types of an introspected schema
MaxBuilds == 2     \* build() calls made on one introspector
MaxDepth == 4      \* nodes of a type reference handed to format_type

Object(name, fields, interfaces) ==
    Type(Some("OBJECT"), name, fields, None, interfaces, None, None, None)

String_t == Named("SCALAR", "String")
ID_t == Named("SCALAR", "ID")
Node_ref == Named("INTERFACE", "Node")
Entity_ref == Named("INTERFACE", "Entity")

\* The two types of tests::test_build.
T_Content ==
    Object(Some("Content"),
           Some(<<Field(Some("viewer"), Some(Named("OBJECT", "User")), None)>>), None)
T_User ==
    Object(Some("User"), Some(<<Field(Some("name"), Some(String_t), None)>>), None)
\* Two interfaces, a wrapped field type.
T_Post ==
    Object(Some("Post"),
           Some(<<Field(Some("tags"), Some(NonNullOf(ListOf(NonNullOf(String_t)))), None)>>),
           Some(<<Node_ref, Entity_ref>>))
\* An introspection type, and a type whose field refers to it (its interfaces
\* list is present and empty; its second field has arguments).
T_Meta ==
    Object(Some("__Type"), Some(<<Field(Some("name"), Some(String_t), None)>>),
           Some(<<Node_ref>>))
T_Query ==
    Object(Some("Query"),
           Some(<<Field(Some("meta"), Some(Named("OBJECT", "__Type")), None),
                  Field(Some("user"), Some(Named("OBJECT", "User")),
                        Some(<<Field(Some("id"), Some(NonNullOf(ID_t)), None),
                               Field(Some("alias"), Some(String_t), None)>>))>>),
           Some(<<>>))
\* Malformed: interfaces set and no name; an interface entry with no name.
T_NoName == Object(None, Some(<<Field(Some("x"), Some(String_t), None)>>), Some(<<Node_ref>>))
T_BadIface ==
    Object(Some("Broken"), None, Some(<<TypeRef(Some("INTERFACE"), None, None)>>))
\* No name and no interfaces; an unhandled kind; no kind.
T_Anonymous == Object(None, Some(<<Field(Some("y"), Some(String_t), None)>>), None)
T_Directive == Type(Some("DIRECTIVE"), Some("skip"), None, None, None, None, None, None)
T_NoKind == Type(None, Some("Mystery"), None, None, None, None, None, None)
\* The other kinds.
T_Color ==
    Type(Some("ENUM"), Some("Color"), None, None, None,
         Some(<<Value(Some("RED")), Value(Some("GREEN"))>>), None, None)
T_Date == Type(Some("SCALAR"), Some("Date"), None, None, None, None, None, None)
T_Node ==
    Type(Some("INTERFACE"), Some("Node"),
         Some(<<Field(Some("id"), Some(NonNullOf(ID_t)), None),
                Field(Some("untyped"), None, None)>>),
         None, None, None, None, None)
T_Filter ==
    Type(Some("INPUT_OBJECT"), Some("Filter"), None,
         Some(<<Field(Some("ids"), Some(ListOf(NonNullOf(ID_t))), None),
                Field(Some("untyped"), None, None)>>),
         None, None, None, None)
T_SearchResult ==
    Type(Some("UNION"), Some("SearchResult"), None, None, None, None,
         Some(<<Named("OBJECT", "Post"), Named("OBJECT", "Comment")>>), None)

TypePool ==
    {T_Content, T_User, T_Post, T_Meta, T_Query, T_NoName, T_BadIface,
     T_Anonymous, T_Directive, T_NoKind, T_Color, T_Date, T_Node, T_Filter,
     T_SearchResult}

\* IntrospectionResult { schema: Schema { types } }
IntrospectionResult(types) == [schema |-> [types |-> types]]

Documents ==
    {IntrospectionResult(ts) : ts \in UNION {[1..n -> TypePool] : n \in 0..MaxTypes}}

\* The schema text of tests::test_write.
SchemaContent == "type Content {\n  viewer: User\n}\n\ntype User {\n  name: String\n}\n"

HeaderKeys == {"Authorization"}
HeaderValues == {"Bearer token"}

\* Paths handed to write(): a file that does not exist yet, a file that exists,
\* and a path in a directory that does not exist, where File::create fails.
OutputPath == "./output.graphql"
ExistingPath == "./test_output.graphql"
MissingDirPath == "/nonexistent/output.graphql"
Paths == {OutputPath, ExistingPath, MissingDirPath}
OldContent == "scalar Old\n"

InitFiles == [p \in Paths |-> IF p = ExistingPath THEN Some(OldContent) ELSE None]

can_create(path) == path # MissingDirPath

\* The type references handed to format_type: every tree of at most d nodes.
KindOptions == {None, Some("LIST"), Some("NON_NULL"), Some("SCALAR")}
NameOptions == {None, Some("String"), Some("Int")}

RECURSIVE TypeTrees(_)
TypeTrees(d) ==
    IF d = 0 THEN {}
    ELSE LET inner == TypeTrees(d - 1)
         IN  {TypeRef(k, n, o) :
                 k \in KindOptions, n \in NameOptions,
                 o \in {None} \cup {Some(t) : t \in inner}}

(***************************************************************************)
(* The state after construction: GQLIntrospector::new(), or the struct     *)
(* literal of tests::test_write (a schema text and no introspection        *)
(* result).                                                                *)
(***************************************************************************)
Call(op, res, err, path) == [op |-> op, res |-> res, err |-> err, path |-> path]

InitIntrospector ==
    /\ alive = TRUE
    /\ headers = EmptyMap
    /\ introspection_result = None
    /\ schema0 \in {"", SchemaContent}
    /\ schema = schema0
    /\ pc = "idle"
    /\ sb = ""
    /\ idx = 0
    /\ implements_iface_map = EmptyMap
    /\ last = Call("new", "Ok", "", "")
    /\ hist = <<>>

\* No writer is being called on its own.
NoWriterCall == wr_in = None /\ wr_buf = "" /\ wr_out = None

Init ==
    /\ InitIntrospector
    /\ server \in Documents
    /\ files = InitFiles
    /\ ft_arg = None
    /\ ft_ret = None
    /\ NoWriterCall

build_locals == <<sb, idx, implements_iface_map>>
environment == <<files, server>>
format_vars == <<ft_arg, ft_ret>>
writer_vars == <<wr_in, wr_buf, wr_out>>

(***************************************************************************)
(* add(key, value)                                                         *)
(***************************************************************************)
Add ==
    /\ alive /\ pc = "idle"
    /\ \E key \in HeaderKeys, value \in HeaderValues :
          headers' = [k \in DOMAIN headers \cup {key} |->
                         IF k = key THEN value ELSE headers[k]]
    /\ last' = Call("add", "Ok", "", "")
    /\ UNCHANGED <<alive, introspection_result, schema, pc, build_locals,
                   environment, hist, schema0, format_vars, writer_vars>>

(***************************************************************************)
(* get_schema(url): the transport either fails, and the error is returned  *)
(* (the introspector is consumed), or answers with the endpoint's schema.  *)
(***************************************************************************)
GetSchemaErr ==
    /\ alive /\ pc = "idle"
    /\ alive' = FALSE
    /\ last' = Call("get_schema", "Err", "transport", "")
    /\ UNCHANGED <<headers, introspection_result, schema, pc, build_locals,
                   environment, hist, schema0, format_vars, writer_vars>>

GetSchemaOk ==
    /\ alive /\ pc = "idle"
    /\ introspection_result' = Some(server)
    /\ last' = Call("get_schema", "Ok", "", "")
    /\ UNCHANGED <<alive, headers, schema, pc, build_locals,
                   environment, hist, schema0, format_vars, writer_vars>>

GetSchema == GetSchemaErr \/ GetSchemaOk

(***************************************************************************)
(* build().  sb takes the schema text held; with no introspection result   *)
(* the outer `if let` is skipped and build returns Ok(self); otherwise the *)
(* implements index is built (an unwrap of an absent name panics) and the  *)
(* loop runs over the types, one BuildType step each, then BuildReturn.    *)
(***************************************************************************)
build_entry(text) == text

Built(text, model) == [text |-> text, model |-> model]

BuildNoResult ==
    /\ alive /\ pc = "idle" /\ Len(hist) < MaxBuilds
    /\ ~IsSome(introspection_result)
    /\ sb' = build_entry(schema)
    /\ schema' = sb'
    /\ hist' = Append(hist, Built(schema', introspection_result))
    /\ last' = Call("build", "Ok", "", "")
    /\ UNCHANGED <<alive, headers, introspection_result, pc, idx,
                   implements_iface_map, environment, schema0, format_vars, writer_vars>>

BuildPanic ==
    /\ alive /\ pc = "idle" /\ Len(hist) < MaxBuilds
    /\ IsSome(introspection_result)
    /\ build_implements_interface_map(Unwrap(introspection_result)).panic
    /\ alive' = FALSE
    /\ sb' = build_entry(schema)
    /\ last' = Call("build", "Panic", "unwrap", "")
    /\ UNCHANGED <<headers, introspection_result, schema, pc, idx,
                   implements_iface_map, environment, hist, schema0, format_vars, writer_vars>>

BuildEnter ==
    /\ alive /\ pc = "idle" /\ Len(hist) < MaxBuilds
    /\ IsSome(introspection_result)
    /\ LET r == build_implements_interface_map(Unwrap(introspection_result))
       IN  /\ ~r.panic
           /\ implements_iface_map' = r.map
    /\ sb' = build_entry(schema)
    /\ idx' = 1
    /\ pc' = "build"
    /\ last' = Call("build", "running", "", "")
    /\ UNCHANGED <<alive, headers, introspection_result, schema,
                   environment, hist, schema0, format_vars, writer_vars>>

types_of(result) == Unwrap(result).schema.types

\* The types visited from the last to the first.
loop_item_reversed(types, i) == types[Len(types) + 1 - i]

\* The order in which the loop visits the types: the i-th step takes types[i].
loop_item(types, i) == types[i]

BuildType ==
    /\ alive /\ pc = "build"
    /\ idx <= Len(types_of(introspection_result))
    /\ sb' = build_type(sb, loop_item(types_of(introspection_result), idx),
                        implements_iface_map)
    /\ idx' = idx + 1
    /\ UNCHANGED <<alive, headers, introspection_result, schema, pc,
                   implements_iface_map, environment, last, hist, schema0,
                   format_vars, writer_vars>>

BuildReturn ==
    /\ alive /\ pc = "build"
    /\ idx > Len(types_of(introspection_result))
    /\ schema' = sb
    /\ pc' = "idle"
    /\ hist' = Append(hist, Built(sb, introspection_result))
    /\ last' = Call("build", "Ok", "", "")
    /\ UNCHANGED <<alive, headers, introspection_result, build_locals,
                   environment, schema0, format_vars, writer_vars>>

Build == BuildNoResult \/ BuildPanic \/ BuildEnter \/ BuildType \/ BuildReturn

(***************************************************************************)
(* write(file_path)                                                        *)
(***************************************************************************)
\* The emptiness check left out.
is_empty_output_never(text) == FALSE

is_empty_output(text) == Len(text) = 0

\* The last byte not written.
written_bytes_short(text) == SubSeq(text, 1, Len(text) - 1)

written_bytes(text) == text

\* The bytes a failed write_all may leave in the created file.
WriteCuts(text) == {0, Len(text) - 1}

WriteEmpty ==
    /\ alive /\ pc = "idle"
    /\ is_empty_output(schema)
    /\ \E path \in Paths : last' = Call("write", "Err", "empty_output", path)
    /\ alive' = FALSE
    /\ UNCHANGED <<headers, introspection_result, schema, pc, build_locals,
                   environment, hist, schema0, format_vars, writer_vars>>

WriteCreateFails ==
    /\ alive /\ pc = "idle"
    /\ ~is_empty_output(schema)
    /\ \E path \in Paths :
          /\ ~can_create(path)
          /\ last' = Call("write", "Err", "io", path)
    /\ alive' = FALSE
    /\ UNCHANGED <<headers, introspection_result, schema, pc, build_locals,
                   environment, hist, schema0, format_vars, writer_vars>>

WriteAllFails ==
    /\ alive /\ pc = "idle"
    /\ ~is_empty_output(schema)
    /\ \E path \in Paths :
          /\ can_create(path)
          /\ \E n \in WriteCuts(schema) :
                files' = [files EXCEPT ![path] = Some(SubSeq(schema, 1, n))]
          /\ last' = Call("write", "Err", "io", path)
    /\ alive' = FALSE
    /\ UNCHANGED <<headers, introspection_result, schema, pc, build_locals,
                   server, hist, schema0, format_vars, writer_vars>>

WriteOk ==
    /\ alive /\ pc = "idle"
    /\ ~is_empty_output(schema)
    /\ \E path \in Paths :
          /\ can_create(path)
          /\ files' = [files EXCEPT ![path] = Some(written_bytes(schema))]
          /\ last' = Call("write", "Ok", "", path)
    /\ alive' = FALSE
    /\ UNCHANGED <<headers, introspection_result, schema, pc, build_locals,
                   server, hist, schema0, format_vars, writer_vars>>

Write == WriteEmpty \/ WriteCreateFails \/ WriteAllFails \/ WriteOk

Next == Add \/ GetSchema \/ Build \/ Write

Spec == Init /\ [][Next]_vars

(***************************************************************************)
(* format_type on its own: the argument is any type reference of at most   *)
(* MaxDepth nodes, and FormatType applies the function to it.              *)
(***************************************************************************)
InitFormat ==
    /\ InitIntrospector
    /\ schema0 = ""
    /\ server = IntrospectionResult(<<>>)
    /\ files = InitFiles
    /\ ft_arg \in {Some(t) : t \in TypeTrees(MaxDepth)}
    /\ ft_ret = None
    /\ NoWriterCall

FormatType ==
    /\ IsSome(ft_arg) /\ ~IsSome(ft_ret)
    /\ ft_ret' = Some(format_type(Unwrap(ft_arg)))
    /\ UNCHANGED <<alive, headers, introspection_result, schema, pc, build_locals,
                   environment, last, hist, schema0, ft_arg, writer_vars>>

NextFormat == FormatType

SpecFormat == InitFormat /\ [][NextFormat]_vars

(***************************************************************************)
(* write_field on its own: the field is any Field with at most MaxArgs     *)
(* arguments, each part present or absent, and WriteField applies the      *)
(* function to it and a buffer.                                            *)
(***************************************************************************)
MaxArgs == 2       \* arguments of a field handed to write_field

FieldNameOptions == {None, Some("user")}
FieldTypeOptions == {None, Some(Named("OBJECT", "User")), Some(NonNullOf(ListOf(String_t)))}
ArgOptions ==
    {Field(n, Some(ty), None) :
        n \in {None, Some("id"), Some("alias")}, ty \in {NonNullOf(ID_t), String_t}}

FieldInputs ==
    {Field(n, ty, a) :
        n \in FieldNameOptions, ty \in FieldTypeOptions,
        a \in {None} \cup {Some(v) : v \in UNION {[1..k -> ArgOptions] : k \in 0..MaxArgs}}}

\* The buffer handed to a writer: empty, or holding the header of a block.
WriterBuffers == {"", "type Query {\n"}

InitWriter ==
    /\ InitIntrospector
    /\ schema0 = ""
    /\ server = IntrospectionResult(<<>>)
    /\ files = InitFiles
    /\ ft_arg = None
    /\ ft_ret = None
    /\ wr_buf \in WriterBuffers
    /\ wr_out = None

InitField == InitWriter /\ wr_in \in {Some(f) : f \in FieldInputs}

WriteField ==
    /\ IsSome(wr_in) /\ ~IsSome(wr_out)
    /\ wr_out' = Some(write_field(wr_buf, Unwrap(wr_in)))
    /\ UNCHANGED <<alive, headers, introspection_result, schema, pc, build_locals,
                   environment, last, hist, schema0, format_vars, wr_in, wr_buf>>

NextField == WriteField

SpecField == InitField /\ [][NextField]_vars

(***************************************************************************)
(* write_union_type on its own: the type is a UNION with a name present or *)
(* absent and possibleTypes absent or of at most MaxMembers members, each  *)
(* with or without a name.                                                 *)
(***************************************************************************)
MaxMembers == 3    \* possible types of a union handed to write_union_type

UnionNameOptions == {None, Some("SearchResult")}
MemberOptions ==
    {Named("OBJECT", "Post"), Named("OBJECT", "Comment"), TypeRef(Some("OBJECT"), None, None)}

UnionInputs ==
    {Type(Some("UNION"), n, None, None, None, None, p, None) :
        n \in UnionNameOptions,
        p \in {None} \cup {Some(v) : v \in UNION {[1..k -> MemberOptions] : k \in 0..MaxMembers}}}

InitUnion == InitWriter /\ wr_in \in {Some(t) : t \in UnionInputs}

WriteUnion ==
    /\ IsSome(wr_in) /\ ~IsSome(wr_out)
    /\ wr_out' = Some(write_union_type(wr_buf, Unwrap(wr_in)))
    /\ UNCHANGED <<alive, headers, introspection_result, schema, pc, build_locals,
                   environment, last, hist, schema0, format_vars, wr_in, wr_buf>>

NextUnion == WriteUnion

SpecUnion == InitUnion /\ [][NextUnion]_vars

(***************************************************************************)
(* Definitions shared by the properties.                                   *)
(***************************************************************************)
BuildReturnedOk == last.op = "build" /\ last.res = "Ok"

\* The text build() calls have appended to the text the introspector was
\* constructed with.
Produced(text) == SubSeq(text, Len(schema0) + 1, Len(text))

\* The schema text held when the build() that returned last was entered.
TextAtEntry == IF Len(hist) <= 1 THEN schema0 ELSE hist[Len(hist) - 1].text

HandledKinds == {"OBJECT", "ENUM", "SCALAR", "INTERFACE", "INPUT_OBJECT", "UNION"}
Keywords == {"type", "enum", "scalar", "interface", "input", "union"}

IsRendered(t) ==
    /\ IsSome(t.name) /\ ~starts_with(Unwrap(t.name), "__")
    /\ IsSome(t.kind) /\ Unwrap(t.kind) \in HandledKinds

IsRenderedObject(t) == IsRendered(t) /\ Unwrap(t.kind) = "OBJECT"

InterfaceNames(t) ==
    IF IsSome(t.interfaces)
    THEN [i \in 1..Len(Unwrap(t.interfaces)) |-> Unwrap(Unwrap(t.interfaces)[i].name)]
    ELSE <<>>

\* The interface names of every top-level type called name, in schema order.
RECURSIVE InterfacesUnderName(_, _)
InterfacesUnderName(types, name) ==
    IF Len(types) = 0 THEN <<>>
    ELSE (IF IsSome(Head(types).name) /\ Unwrap(Head(types).name) = name
          THEN InterfaceNames(Head(types)) ELSE <<>>)
         \o InterfacesUnderName(Tail(types), name)

RECURSIVE Ampersands(_)
Ampersands(names) ==
    IF Len(names) = 1 THEN names[1] ELSE names[1] \o " & " \o Ampersands(Tail(names))

HeaderWith(name, ifaces) ==
    "type " \o name
        \o (IF Len(ifaces) = 0 THEN "" ELSE " implements " \o Ampersands(ifaces))
        \o " {\n"

NameIsUnique(types, t) ==
    Cardinality({i \in 1..Len(types) : types[i].name = t.name}) = 1

\* What the step of the loop being taken appends to the buffer.
Appended == SubSeq(sb', Len(sb) + 1, Len(sb'))

InLoopAt(t) ==
    /\ pc = "build" /\ idx <= Len(types_of(introspection_result))
    /\ t = types_of(introspection_result)[idx]

(***************************************************************************)
(* C1: build() on an introspector that holds no introspection result       *)
(* always returns an error, never Ok.                                      *)
(***************************************************************************)
C1_BuildWithoutResultIsError ==
    (last.op = "build" /\ ~IsSome(introspection_result)) => last.res = "Err"

(***************************************************************************)
(* C2: write(path) with an empty schema text returns the empty-output      *)
(* error and leaves the file system as it was: no file is created, none is *)
(* truncated.                                                              *)
(***************************************************************************)
C2_WriteEmptyFailsAndCreatesNothing ==
    [][(alive /\ pc = "idle" /\ Len(schema) = 0 /\ last'.op = "write" /\ ~alive')
        => (last'.res = "Err" /\ last'.err = "empty_output" /\ files' = files)]_vars

C2_Witness ==
    /\ last.op = "write" /\ last.err = "empty_output"
    /\ Len(hist) >= 1 /\ IsSome(introspection_result)
    /\ last.path = ExistingPath /\ files[ExistingPath] = Some(OldContent)
    /\ files[OutputPath] = None

(***************************************************************************)
(* C3, as claimed: write(path) with a non-empty schema text succeeds and   *)
(* leaves the file at path holding exactly the schema text.                *)
(***************************************************************************)
C3_Original_WriteNonEmptySucceeds ==
    (last.op = "write" /\ Len(schema) > 0)
        => (last.res = "Ok" /\ files[last.path] = Some(schema))

(***************************************************************************)
(* C3, amended: write(path) with a non-empty schema text never reports the *)
(* empty-output error; when it returns Ok the file at path holds exactly   *)
(* the schema text, with or without an introspection result; when          *)
(* File::create fails the I/O error is returned and no file changes; when  *)
(* write_all fails the I/O error is returned and the file holds a proper   *)
(* prefix of the text.  No other file changes.                             *)
(***************************************************************************)
C3_WriteNonEmpty ==
    (last.op = "write" /\ Len(schema) > 0) =>
        /\ last.res \in {"Ok", "Err"}
        /\ last.res = "Ok" => files[last.path] = Some(schema)
        /\ last.res = "Err" =>
              /\ last.err = "io"
              /\ \/ files[last.path] = InitFiles[last.path]
                 \/ /\ IsSome(files[last.path])
                    /\ IsPrefix(Unwrap(files[last.path]), schema)
                    /\ Len(Unwrap(files[last.path])) < Len(schema)
        /\ ~can_create(last.path) => (last.res = "Err" /\ files = InitFiles)
        /\ \A p \in Paths \ {last.path} : files[p] = InitFiles[p]

C3_Witness ==
    /\ last.op = "write" /\ last.res = "Ok"
    /\ ~IsSome(introspection_result)
    /\ schema = SchemaContent
    /\ files[last.path] = Some(SchemaContent)

(***************************************************************************)
(* C4, as claimed: no line of the SDL build() produces mentions the name   *)
(* of a top-level type whose name starts with `__`.                        *)
(***************************************************************************)
C4_Original_NoLineMentionsIntrospectionName ==
    (BuildReturnedOk /\ IsSome(introspection_result)) =>
        \A i \in 1..Len(types_of(introspection_result)) :
            LET t == types_of(introspection_result)[i]
            IN  (IsSome(t.name) /\ starts_with(Unwrap(t.name), "__")) =>
                    \A line \in Lines(Produced(schema)) :
                        ~contains(line, Unwrap(t.name))

(***************************************************************************)
(* C4, amended: build() emits no block for a type whose name starts with   *)
(* `__`: no line of the SDL it produces is the header (type, enum, scalar, *)
(* interface, input, union) of such a name.  A line of another type may    *)
(* still mention the name, as a field type for one.                        *)
(***************************************************************************)
C4_NoBlockForIntrospectionName ==
    BuildReturnedOk =>
        \A line \in Lines(Produced(schema)) : \A kw \in Keywords :
            ~starts_with(line, kw \o " __")

C4_Witness ==
    /\ BuildReturnedOk /\ IsSome(introspection_result)
    /\ types_of(introspection_result) = <<T_Meta, T_Query>>
    /\ contains(schema, "  meta: __Type\n")

(***************************************************************************)
(* C5, as claimed: the block of every OBJECT type build() renders starts   *)
(* with `type <Name> implements I1 & I2 ...` listing that type's own       *)
(* interfaces in declaration order, and with `type <Name>` alone when the  *)
(* type's interfaces are absent or empty.                                  *)
(***************************************************************************)
C5_Original_HeaderListsOwnInterfaces ==
    [][\A t \in TypePool :
        (InLoopAt(t) /\ IsRenderedObject(t))
            => starts_with(Appended, HeaderWith(Unwrap(t.name), InterfaceNames(t)))]_vars

(***************************************************************************)
(* C5, amended: the block of every OBJECT type build() renders starts with *)
(* `type <Name>` followed, when some top-level type of that name has a     *)
(* non-empty interfaces list, by ` implements ` and the interface names of *)
(* all top-level types of that name, in schema order, joined by ` & `; it  *)
(* has no implements clause otherwise.  When no other top-level type has   *)
(* the name, these are the type's own interfaces in declaration order.     *)
(***************************************************************************)
C5_HeaderListsInterfacesUnderName ==
    [][\A t \in TypePool :
        (InLoopAt(t) /\ IsRenderedObject(t)) =>
            /\ starts_with(Appended,
                   HeaderWith(Unwrap(t.name),
                       InterfacesUnderName(types_of(introspection_result),
                                           Unwrap(t.name))))
            /\ NameIsUnique(types_of(introspection_result), t)
                  => starts_with(Appended,
                         HeaderWith(Unwrap(t.name), InterfaceNames(t)))]_vars

C5_Witness ==
    /\ BuildReturnedOk /\ IsSome(introspection_result)
    /\ types_of(introspection_result) = <<T_Post, T_Query>>
    /\ schema0 = ""
    /\ starts_with(schema, "type Post implements Node & Entity {\n")
    /\ contains(schema, "\ntype Query {\n")

(***************************************************************************)
(* The function C6 describes, computed from the wrapper chain: the opening *)
(* brackets of the LIST wrappers from the outside in, the innermost name,  *)
(* then the closing marks of the wrappers from the inside out.             *)
(***************************************************************************)
KindIs(t, k) == IsSome(t.kind) /\ Unwrap(t.kind) = k

RECURSIVE Opening(_)
Opening(t) ==
    IF IsSome(t.of_type)
    THEN (IF KindIs(t, "LIST") THEN "[" ELSE "") \o Opening(Unwrap(t.of_type))
    ELSE ""

RECURSIVE Closing(_)
Closing(t) ==
    IF IsSome(t.of_type)
    THEN Closing(Unwrap(t.of_type))
            \o (IF KindIs(t, "LIST") THEN "]" ELSE IF KindIs(t, "NON_NULL") THEN "!" ELSE "")
    ELSE ""

RECURSIVE InnermostName(_)
InnermostName(t) ==
    IF IsSome(t.of_type) THEN InnermostName(Unwrap(t.of_type))
    ELSE IF IsSome(t.name) THEN Unwrap(t.name) ELSE ""

Reference(t) == Opening(t) \o InnermostName(t) \o Closing(t)

(***************************************************************************)
(* C6: format_type(t) is: with an ofType, the formatted ofType wrapped in  *)
(* `[` `]` for kind LIST, followed by `!` for kind NON_NULL, unchanged for *)
(* any other or absent kind; without one, the name when present and the    *)
(* empty string otherwise.  NON_NULL(LIST(NON_NULL(SCALAR String))) gives  *)
(* `[String!]!` and SCALAR Int gives `Int`.                                *)
(***************************************************************************)
C6_FormatTypeIsTheRecursiveFunction ==
    IsSome(ft_ret) =>
        LET t == Unwrap(ft_arg)
            r == Unwrap(ft_ret)
        IN  /\ r = Reference(t)
            /\ (IsSome(t.of_type) /\ KindIs(t, "LIST"))
                  => r = "[" \o Reference(Unwrap(t.of_type)) \o "]"
            /\ (IsSome(t.of_type) /\ KindIs(t, "NON_NULL"))
                  => r = Reference(Unwrap(t.of_type)) \o "!"
            /\ (IsSome(t.of_type) /\ ~KindIs(t, "LIST") /\ ~KindIs(t, "NON_NULL"))
                  => r = Reference(Unwrap(t.of_type))
            /\ (~IsSome(t.of_type) /\ IsSome(t.name)) => r = Unwrap(t.name)
            /\ (~IsSome(t.of_type) /\ ~IsSome(t.name)) => r = ""
            /\ t = NonNullOf(ListOf(NonNullOf(Named("SCALAR", "String"))))
                  => r = "[String!]!"
            /\ t = Named("SCALAR", "Int") => r = "Int"

C6_Witness ==
    /\ ft_arg = Some(NonNullOf(ListOf(NonNullOf(Named("SCALAR", "String")))))
    /\ ft_ret = Some("[String!]!")

(***************************************************************************)
(* A reference cut off by the query's depth: four nodes, each a LIST or    *)
(* NON_NULL without a name, the fourth without an ofType.                  *)
(***************************************************************************)
IsWrapper(t) == (KindIs(t, "LIST") \/ KindIs(t, "NON_NULL")) /\ ~IsSome(t.name)

IsBareWrapper(t) == IsWrapper(t) /\ ~IsSome(t.of_type)

IsTruncatedChain(t) ==
    /\ IsWrapper(t) /\ IsSome(t.of_type)
    /\ LET t2 == Unwrap(t.of_type)
       IN  /\ IsWrapper(t2) /\ IsSome(t2.of_type)
           /\ LET t3 == Unwrap(t2.of_type)
              IN  /\ IsWrapper(t3) /\ IsSome(t3.of_type)
                  /\ IsBareWrapper(Unwrap(t3.of_type))

Wrapped(t, text) == IF KindIs(t, "LIST") THEN "[" \o text \o "]" ELSE text \o "!"

(***************************************************************************)
(* C7, as claimed: a type reference cut off at four wrapper levels is      *)
(* formatted as the empty string.                                          *)
(***************************************************************************)
C7_Original_TruncatedChainIsEmpty ==
    (IsSome(ft_ret) /\ IsTruncatedChain(Unwrap(ft_arg))) => Unwrap(ft_ret) = ""

(***************************************************************************)
(* C7, amended: in a type reference cut off at four wrapper levels only    *)
(* the innermost node (a LIST or NON_NULL with neither name nor ofType)    *)
(* is formatted as the empty string; the reference is formatted as the     *)
(* marks of its three outer wrappers around that empty string, such as     *)
(* `[[]!]`, which is not empty.                                            *)
(***************************************************************************)
C7_TruncatedChainKeepsWrappers ==
    IsSome(ft_ret) =>
        LET t == Unwrap(ft_arg)
            r == Unwrap(ft_ret)
        IN  /\ IsBareWrapper(t) => r = ""
            /\ IsTruncatedChain(t) =>
                  LET t2 == Unwrap(t.of_type)
                      t3 == Unwrap(t2.of_type)
                  IN  /\ r = Wrapped(t, Wrapped(t2, Wrapped(t3, "")))
                      /\ r # ""

C7_Witness ==
    /\ IsSome(ft_arg) /\ IsTruncatedChain(Unwrap(ft_arg))
    /\ ft_arg = Some(ListOf(NonNullOf(ListOf(TypeRef(Some("NON_NULL"), None, None)))))
    /\ ft_ret = Some("[[]!]")

(***************************************************************************)
(* C8: the schema text held after build() is the same after building the   *)
(* same schema model again, also on the introspector the first build()     *)
(* returned.                                                               *)
(***************************************************************************)
C8_RebuildKeepsText ==
    \A i \in 1..Len(hist) : \A j \in 1..Len(hist) :
        hist[i].model = hist[j].model => hist[i].text = hist[j].text

(***************************************************************************)
(* C9: a top-level type with interfaces and no name, or an interface entry *)
(* with no name, is skipped by the implements index: a build() that has    *)
(* ended has returned Ok.                                                  *)
(***************************************************************************)
C9_MalformedInterfaceEntryIsSkipped ==
    (last.op = "build" /\ last.res # "running") => last.res = "Ok"

(***************************************************************************)
(* C10: build() appends the blocks of the types in the order of            *)
(* schema.types: the text it returns with is the text it was entered with  *)
(* followed by the block of the first type, then of the second, and so     *)
(* on.  For Content { viewer: User } and User { name: String } and no      *)
(* prior text this is exactly the two blocks of the scenario.              *)
(***************************************************************************)
RECURSIVE BlocksInOrder(_, _, _)
BlocksInOrder(types, i, map) ==
    IF i > Len(types) THEN ""
    ELSE build_type("", types[i], map) \o BlocksInOrder(types, i + 1, map)

ScenarioA == "type Content {\n  viewer: User\n}\n\n" \o "type User {\n  name: String\n}\n\n"

C10_BlocksFollowInputOrder ==
    (BuildReturnedOk /\ IsSome(introspection_result)) =>
        LET types == types_of(introspection_result)
            map == build_implements_interface_map(Unwrap(introspection_result)).map
        IN  /\ schema = TextAtEntry \o BlocksInOrder(types, 1, map)
            /\ (types = <<T_Content, T_User>> /\ TextAtEntry = "")
                  => schema = ScenarioA

C10_Witness ==
    /\ BuildReturnedOk /\ IsSome(introspection_result)
    /\ types_of(introspection_result) = <<T_Content, T_User>>
    /\ Len(hist) = 1 /\ schema0 = ""
    /\ schema = ScenarioA

(***************************************************************************)
(* C11: a top-level type with no name, with no kind or with a kind that is *)
(* none of the six handled ones contributes nothing to the text, does not  *)
(* make build() fail and does not change what is rendered for the other    *)
(* types: a build() of a schema holding such a type ends with Ok and with  *)
(* the text the schema without these types gives.                          *)
(***************************************************************************)
IsSkippedType(t) ==
    \/ ~IsSome(t.name)
    \/ ~IsSome(t.kind)
    \/ Unwrap(t.kind) \notin HandledKinds

WithoutSkipped(types) == SelectSeq(types, LAMBDA t : ~IsSkippedType(t))

C11_SkippedTypeChangesNothing ==
    LET types == types_of(introspection_result)
        others == build_implements_interface_map(
                      IntrospectionResult(WithoutSkipped(types)))
    IN  (/\ last.op = "build" /\ last.res # "running"
         /\ IsSome(introspection_result)
         /\ \E i \in 1..Len(types) : IsSkippedType(types[i])
         /\ ~others.panic)
        => /\ last.res = "Ok"
           /\ schema = TextAtEntry \o BlocksInOrder(WithoutSkipped(types), 1, others.map)

(***************************************************************************)
(* The text a writer called on its own has pushed onto its buffer.         *)
(***************************************************************************)
Pushed == SubSeq(Unwrap(wr_out), Len(wr_buf) + 1, Len(Unwrap(wr_out)))

RECURSIVE SeparatedBy(_, _)
SeparatedBy(pieces, sep) ==
    IF Len(pieces) = 0 THEN ""
    ELSE IF Len(pieces) = 1 THEN pieces[1]
         ELSE pieces[1] \o sep \o SeparatedBy(Tail(pieces), sep)

\* An argument as the claim renders it: its name, then the enclosing field's type.
ArgumentPiece(field, arg) ==
    IF IsSome(arg.name) /\ IsSome(field.field_type)
    THEN Unwrap(arg.name) \o ": " \o Reference(Unwrap(field.field_type))
    ELSE ""

HasArguments(field) == IsSome(field.args) /\ Len(Unwrap(field.args)) > 0

ArgumentList(field) ==
    IF HasArguments(field)
    THEN "(" \o SeparatedBy([i \in 1..Len(Unwrap(field.args)) |->
                                ArgumentPiece(field, Unwrap(field.args)[i])], ", ")
             \o ")"
    ELSE ""

(***************************************************************************)
(* C12: write_field renders every argument as `<argName>: <T>` with T the  *)
(* formatted type of the enclosing field, not of the argument; the         *)
(* arguments are separated by `, ` inside one pair of parentheses, which   *)
(* is there only when the argument list is not empty.  (An argument        *)
(* without a name, and any argument of a field without a type, has no      *)
(* such rendering: it leaves an empty place between its separators.)       *)
(***************************************************************************)
C12_ArgumentsUseTheFieldType ==
    (IsSome(wr_out) /\ IsSome(Unwrap(wr_in).name)) =>
        LET f == Unwrap(wr_in)
            line == "  " \o Unwrap(f.name) \o ArgumentList(f)
        IN  /\ IsPrefix(wr_buf, Unwrap(wr_out))
            /\ IsPrefix(line, Pushed)
            /\ Pushed = line \o (IF IsSome(f.field_type)
                                 THEN ": " \o Reference(Unwrap(f.field_type)) \o "\n"
                                 ELSE "")
            /\ ~HasArguments(f) => (~contains(Pushed, "(") /\ ~contains(Pushed, ")"))
            /\ HasArguments(f) =>
                  /\ starts_with(Pushed, "  " \o Unwrap(f.name) \o "(")
                  /\ Cardinality({i \in 1..Len(Pushed) : SubSeq(Pushed, i, i) = "("}) = 1
                  /\ Cardinality({i \in 1..Len(Pushed) : SubSeq(Pushed, i, i) = ")"}) = 1

C12_Witness ==
    /\ wr_in = Some(Field(Some("user"), Some(Named("OBJECT", "User")),
                          Some(<<Field(Some("id"), Some(NonNullOf(ID_t)), None),
                                 Field(Some("alias"), Some(String_t), None)>>)))
    /\ wr_buf = "type Query {\n"
    /\ wr_out = Some("type Query {\n  user(id: User, alias: User): User\n")

(***************************************************************************)
(* C13: the schema text is append-only while build() runs and fixed once   *)
(* it has returned: every step of build() extends the text it works on     *)
(* (the text before the step is a prefix of the text after it), and after  *)
(* a build() of the model held has returned, no step of add, build or      *)
(* write changes the schema text.                                          *)
(***************************************************************************)
C13_TextIsAppendOnlyThenFixed ==
    [][/\ (pc = "idle" /\ pc' = "build") => IsPrefix(schema, sb')
       /\ (pc = "build" /\ pc' = "build") => IsPrefix(sb, sb')
       /\ (pc = "build" /\ pc' = "idle") => IsPrefix(sb, schema')
       /\ (/\ Len(hist) >= 1
           /\ hist[Len(hist)].model = introspection_result
           /\ hist[Len(hist)].text = schema)
          => schema' = schema]_vars

(***************************************************************************)
(* C14: every field of a rendered OBJECT, INTERFACE or INPUT_OBJECT block  *)
(* contributes complete lines only, fields with a name and no type         *)
(* included, so that in the text build() has produced the closing brace    *)
(* of every block stands on a line of its own.                             *)
(***************************************************************************)
C14_FieldLinesAreComplete ==
    BuildReturnedOk =>
        \A line \in Lines(Produced(schema)) : contains(line, "}") => line = "}"

\* The names of the members of a union that have one, in declared order.
MemberNames(t) ==
    IF IsSome(t.possible_types)
    THEN LET named == SelectSeq(Unwrap(t.possible_types), LAMBDA m : IsSome(m.name))
         IN  [i \in 1..Len(named) |-> Unwrap(named[i].name)]
    ELSE <<>>

(***************************************************************************)
(* C15: a UNION type with a name is rendered as the one line               *)
(* `union <Name> = ` followed by its member names in declared order with   *)
(* exactly one ` | ` between consecutive names and none leading or         *)
(* trailing, and then a blank line.                                        *)
(***************************************************************************)
C15_UnionIsMembersJoinedByBar ==
    (IsSome(wr_out) /\ IsSome(Unwrap(wr_in).name)) =>
        LET t == Unwrap(wr_in)
        IN  /\ IsPrefix(wr_buf, Unwrap(wr_out))
            /\ Pushed = "union " \o Unwrap(t.name) \o " = "
                            \o SeparatedBy(MemberNames(t), " | ") \o "\n\n"

====
